---- MODULE Spec2Model ----
(***************************************************************************)
(* A model of main.py, the Telegram bot that collects the headlines of    *)
(* lenta.ru for a day or a range of days, tags every headline with an     *)
(* emotion and serves the tagged batch back by category.                   *)
(*                                                                         *)
(* Python strings are tuples of one-character strings, so that lower(),   *)
(* strip(), split(), startswith(), "in" and the regular expression of     *)
(* format_news_headline are computed character by character.  The         *)
(* Cyrillic literals of the source are written letter for letter in Latin *)
(* letters (same length, same letter case).                               *)
(***************************************************************************)
EXTENDS Integers, Sequences, FiniteSets, TLC

VARIABLES
    \* ---- the bot: handler threads, reporter threads, process-wide state ----
    pc,                \* per handler thread: where the handler it runs stands
    frame,             \* per handler thread: the locals of the handler it runs
    progress,          \* per handler thread: the dict progress of its query
    rpc,               \* per handler thread: where update_progress of its query stands
    emits,             \* per handler thread: the last edit_message_text its reporter tried
    reply,             \* per handler thread: the last message its handler sent
    user_context,      \* the global dict user_context
    emotion_graph_png, \* the file emotion_graph.png
    queries_left,      \* how many more date messages the model lets arrive
    \* ---- one call of get_news_for_day on its own (SpecCrawl) ----
    crawl_pc,          \* "call" | "returned" | "raised"
    crawl_page,        \* what requests.get answered for the day's index page
    crawl_result       \* the list get_news_for_day returned

botVars == <<pc, frame, progress, rpc, emits, reply, user_context, emotion_graph_png, queries_left>>

crawlVars == <<crawl_pc, crawl_page, crawl_result>>

-----------------------------------------------------------------------------
(* Characters and strings *)

UpperChars == <<"A","B","C","D","E","F","G","H","I","J","K","L","M","N","O","P","Q","R","S","T","U","V","W","X","Y","Z">>

LowerChars == <<"a","b","c","d","e","f","g","h","i","j","k","l","m","n","o","p","q","r","s","t","u","v","w","x","y","z">>

Digits == <<"0","1","2","3","4","5","6","7","8","9">>

IsDigit(c) == \E i \in 1..Len(Digits) : Digits[i] = c

IsSpace(c) == c \in {" ", "\t", "\n", "\r"}

\* str.lower() on one character
LowerChar(c) ==
    IF \E i \in 1..Len(UpperChars) : UpperChars[i] = c
    THEN LowerChars[CHOOSE i \in 1..Len(UpperChars) : UpperChars[i] = c]
    ELSE c

\* str.lower()
Lower(s) == [i \in 1..Len(s) |-> LowerChar(s[i])]

\* s.startswith(p)
StartsWith(s, p) == Len(p) <= Len(s) /\ SubSeq(s, 1, Len(p)) = p

\* sub in s
Contains(s, sub) ==
    \E i \in 0..(Len(s) - Len(sub)) : SubSeq(s, i + 1, i + Len(sub)) = sub

\* the first index >= j of s that holds no whitespace (Len(s) + 1 when none)
RECURSIVE SkipSpace(_, _)
SkipSpace(s, j) ==
    IF j <= Len(s) /\ IsSpace(s[j]) THEN SkipSpace(s, j + 1) ELSE j

\* the first index >= j of s that holds whitespace (Len(s) + 1 when none)
RECURSIVE SkipNonSpace(_, _)
SkipNonSpace(s, j) ==
    IF j <= Len(s) /\ ~IsSpace(s[j]) THEN SkipNonSpace(s, j + 1) ELSE j

\* the last index <= j of s that holds no whitespace (0 when none)
RECURSIVE SkipSpaceBack(_, _)
SkipSpaceBack(s, j) ==
    IF j >= 1 /\ IsSpace(s[j]) THEN SkipSpaceBack(s, j - 1) ELSE j

\* str.strip()
Strip(s) == SubSeq(s, SkipSpace(s, 1), SkipSpaceBack(s, Len(s)))

NoNewline(s) == \A i \in 1..Len(s) : s[i] # "\n"

-----------------------------------------------------------------------------
(* format_news_headline *)

\* Where the pattern  ^(.*?)(\d{2}:\d{2}),\s*([\d]{1,2}\s+\S+\s+\d{4})(.*)$
\* matches with group 1 of length i: the record of the places of groups 2
\* and 3, or ok = FALSE.  Every greedy quantifier of the pattern is followed
\* by a character of the complementary class, so each takes its whole run
\* and the match with a given i is unique.
PatternAt(s, i) ==
    LET t     == i + 1
        d0    == SkipSpace(s, t + 6)
        dlen  == IF d0 + 1 <= Len(s) /\ IsDigit(s[d0]) /\ IsDigit(s[d0 + 1]) THEN 2
                 ELSE IF d0 <= Len(s) /\ IsDigit(s[d0]) THEN 1 ELSE 0
        m0    == SkipSpace(s, d0 + dlen)
        m1    == SkipNonSpace(s, m0)
        y0    == SkipSpace(s, m1)
        rest  == SubSeq(s, y0 + 4, Len(s))
        found ==
            /\ NoNewline(SubSeq(s, 1, i))
            /\ t + 5 <= Len(s)
            /\ IsDigit(s[t]) /\ IsDigit(s[t + 1]) /\ s[t + 2] = ":"
            /\ IsDigit(s[t + 3]) /\ IsDigit(s[t + 4]) /\ s[t + 5] = ","
            /\ dlen >= 1
            /\ m0 > d0 + dlen
            /\ m1 > m0
            /\ y0 > m1
            /\ y0 + 3 <= Len(s)
            /\ \A k \in y0..(y0 + 3) : IsDigit(s[k])
            /\ \/ NoNewline(rest)
               \/ /\ Len(rest) >= 1
                  /\ rest[Len(rest)] = "\n"
                  /\ NoNewline(SubSeq(rest, 1, Len(rest) - 1))
    IN  [ok |-> found, time_from |-> t, date_from |-> d0, date_to |-> y0 + 3]

format_news_headline(headline) ==
    LET starts == {i \in 0..Len(headline) : PatternAt(headline, i).ok} IN
    IF starts # {}
    THEN LET i == CHOOSE k \in starts : \A l \in starts : k <= l   \* (.*?) is lazy
             m == PatternAt(headline, i)
             main_text == Strip(SubSeq(headline, 1, i))
             time_str  == SubSeq(headline, m.time_from, m.time_from + 4)
             date_str  == SubSeq(headline, m.date_from, m.date_to)
         IN  main_text \o <<",", " ">> \o time_str \o <<",", " ">> \o date_str
    ELSE headline

-----------------------------------------------------------------------------
(* get_news_for_day *)

\* "https://lenta.ru"
BASE_URL == <<"h","t","t","p","s",":","/","/","l","e","n","t","a",".","r","u">>

blacklisted_headlines == {
    \* "uznatq bolqwe" (13)
    <<"u","z","n","a","t","q"," ","b","o","l","q","w","e">>,
    \* "podrobnee" (9)
    <<"p","o","d","r","o","b","n","e","e">>,
    \* "press-relizy" (12)
    <<"p","r","e","s","s","-","r","e","l","i","z","y">>,
    \* "tehpodderjka" (12)
    <<"t","e","h","p","o","d","d","e","r","j","k","a">>,
    \* "specproekty" (11)
    <<"s","p","e","c","p","r","o","e","k","t","y">>,
    \* "uslovia ispolqzovania" (21)
    <<"u","s","l","o","v","i","a"," ","i","s","p","o","l","q","z","o","v","a","n","i","a">>,
    \* "politika konfidencialqnosti" (27)
    <<"p","o","l","i","t","i","k","a"," ","k","o","n","f","i","d","e","n","c","i","a","l","q","n","o","s","t","i">>,
    \* "pravila primenenia rekomendatelqnyh tehnologiy" (46)
    <<"p","r","a","v","i","l","a"," ","p","r","i","m","e","n","e","n","i","a"," ","r","e","k","o","m","e","n","d","a","t","e","l","q","n","y","h"," ","t","e","h","n","o","l","o","g","i","y">>,
    \* "usloviami akcii lenta.ru" (24)
    <<"u","s","l","o","v","i","a","m","i"," ","a","k","c","i","i"," ","l","e","n","t","a",".","r","u">>,
    \* "politikoy konfidencialqnosti rambler id" (39)
    <<"p","o","l","i","t","i","k","o","y"," ","k","o","n","f","i","d","e","n","c","i","a","l","q","n","o","s","t","i"," ","r","a","m","b","l","e","r"," ","i","d">>,
    \* "byvwiy sssr" (11)
    <<"b","y","v","w","i","y"," ","s","s","s","r">>,
    \* "silovye struktury" (17)
    <<"s","i","l","o","v","y","e"," ","s","t","r","u","k","t","u","r","y">>,
    \* "nauka i tehnika" (15)
    <<"n","a","u","k","a"," ","i"," ","t","e","h","n","i","k","a">>,
    \* "internet i SMI" (14), written with capitals in the source
    <<"i","n","t","e","r","n","e","t"," ","i"," ","S","M","I">>,
    \* "putewestvia" (11)
    <<"p","u","t","e","w","e","s","t","v","i","a">>,
    \* "sreda obitania" (14)
    <<"s","r","e","d","a"," ","o","b","i","t","a","n","i","a">>,
    \* "zabota o sebe" (13)
    <<"z","a","b","o","t","a"," ","o"," ","s","e","b","e">> }

blacklisted_url_parts == {
    <<"m","a","i","l","t","o",":">>,                                  \* mailto:
    <<"/","p","a","r","t","s","/">>,                                  \* /parts/
    <<"/","s","p","e","c","p","r","o","j","e","c","t","s","/">>,      \* /specprojects/
    <<"/","i","n","f","o","/">>,                                      \* /info/
    <<"h","e","l","p",".","r","a","m","b","l","e","r",".","r","u">>,  \* help.rambler.ru
    <<"/","r","u","b","r","i","c","s","/">> }                         \* /rubrics/

\* An <a> element is a record with its text node and, when the tag has the
\* attribute, its href.  a.get_text(strip=True) of an element with one text
\* node is that node stripped.
get_text(a) == Strip(a.text)

\* soup.find_all('a', href=True): the elements that have the attribute
find_all_a(anchors) == SelectSeq(anchors, LAMBDA a : "href" \in DOMAIN a)

\* line 101: the link is skipped for its headline
HeadlineRejected(headline) ==
    \/ headline = <<>>
    \/ Len(headline) <= 10
    \/ Lower(headline) \in blacklisted_headlines

\* lines 104-110
ResolveUrl(href) ==
    IF StartsWith(href, <<"/">>) THEN BASE_URL \o href
    ELSE IF StartsWith(href, <<"h","t","t","p">>) THEN href
    ELSE BASE_URL \o <<"/">> \o href

\* line 112: the link is skipped for its URL
UrlRejected(full_url) == \E bad \in blacklisted_url_parts : Contains(full_url, bad)

\* lines 98-115: the list news_items after the loop over the links
RECURSIVE CollectLinks(_)
CollectLinks(links) ==
    IF links = <<>> THEN <<>>
    ELSE LET a        == Head(links)
             headline == format_news_headline(get_text(a))
             full_url == ResolveUrl(a.href)
         IN  IF HeadlineRejected(headline) THEN CollectLinks(Tail(links))
             ELSE IF UrlRejected(full_url) THEN CollectLinks(Tail(links))
             ELSE <<[headline |-> headline, url |-> full_url]>> \o CollectLinks(Tail(links))

\* A Python dict is the sequence of its <<key, value>> pairs in insertion
\* order: d[k] = v replaces the value of a key in place and appends a new key.
DictKeys(d) == {d[i][1] : i \in 1..Len(d)}

\* a faulty variant of DictPut: the value a key got first is kept
DictPutFirstWins(d, k, v) ==
    IF k \in DictKeys(d) THEN d ELSE Append(d, <<k, v>>)

DictPut(d, k, v) ==
    IF k \in DictKeys(d)
    THEN [i \in 1..Len(d) |-> IF d[i][1] = k THEN <<k, v>> ELSE d[i]]
    ELSE Append(d, <<k, v>>)

DictValues(d) == [i \in 1..Len(d) |-> d[i][2]]

\* line 117: {item['url']: item for item in news_items}
RECURSIVE DictByUrl(_, _)
DictByUrl(d, news_items) ==
    IF news_items = <<>> THEN d
    ELSE DictByUrl(DictPut(d, Head(news_items).url, Head(news_items)), Tail(news_items))

\* The answer of requests.get for a page: the exception, a text that
\* BeautifulSoup(html, 'html.parser') rejects with an exception, or a text it
\* parses (for an index page: its <a> elements in document order).
FetchError == [status |-> "error"]

RejectedMarkup == [status |-> "rejected"]

FetchOk(anchors) == [status |-> "ok", anchors |-> anchors]

\* line 88 (and line 59): the constructor raises, outside the try
SoupRaises(response) == response.status = "rejected"

\* a faulty variant of get_news_for_day: the links are made unique by URL
\* first, and the filters of lines 101 and 112 see only the link that is left
get_news_for_dayDedupFirst(response) ==
    IF response.status = "error" THEN <<>>
    ELSE LET links == find_all_a(response.anchors)
             items == [k \in 1..Len(links) |->
                          [headline |-> format_news_headline(get_text(links[k])),
                           url      |-> ResolveUrl(links[k].href)]]
         IN  SelectSeq(DictValues(DictByUrl(<<>>, items)),
                       LAMBDA item : ~HeadlineRejected(item.headline) /\ ~UrlRejected(item.url))

\* get_news_for_day, for a response on which line 88 does not raise
get_news_for_day(response) ==
    IF response.status = "error" THEN <<>>
    ELSE DictValues(DictByUrl(<<>>, CollectLinks(find_all_a(response.anchors))))

-----------------------------------------------------------------------------
(* get_first_sentence *)

\* An article page is a record with, when they exist, the text of the first
\* <p> inside div.topic-body__content (body_p) and of the first <p> of the
\* document (first_p).
ArticleOk(page) == [status |-> "ok", page |-> page]

\* re.split(r'(?<=[.!?])\s+', text)[0]: the text up to the first whitespace
\* that follows one of . ! ?
RECURSIVE FirstSentenceEnd(_, _)
FirstSentenceEnd(text, k) ==
    IF k >= Len(text) THEN Len(text)
    ELSE IF text[k] \in {".", "!", "?"} /\ IsSpace(text[k + 1]) THEN k
    ELSE FirstSentenceEnd(text, k + 1)

\* for a response on which line 59 does not raise
get_first_sentence(response) ==
    IF response.status = "error" THEN <<>>
    ELSE LET page  == response.page
             text1 == IF "body_p" \in DOMAIN page THEN Strip(page.body_p) ELSE <<>>
             text  == IF text1 # <<>> THEN text1
                      ELSE IF "first_p" \in DOMAIN page THEN Strip(page.first_p) ELSE <<>>
         IN  SubSeq(text, 1, FirstSentenceEnd(text, 1))

-----------------------------------------------------------------------------
(* Dates: datetime.date and the parsing of the user's text *)

\* str.split(): the maximal runs of non-whitespace, in order
RECURSIVE SplitWhitespace(_)
SplitWhitespace(s) ==
    LET from == SkipSpace(s, 1)
        to   == SkipNonSpace(s, from)
    IN  IF from > Len(s) THEN <<>>
        ELSE <<SubSeq(s, from, to - 1)>> \o SplitWhitespace(SubSeq(s, to, Len(s)))

\* the first index >= j of s that holds sep (Len(s) + 1 when none)
RECURSIVE FindChar(_, _, _)
FindChar(s, sep, j) ==
    IF j <= Len(s) /\ s[j] # sep THEN FindChar(s, sep, j + 1) ELSE j

\* str.split(sep) for a one-character sep: empty fields are kept
RECURSIVE SplitOn(_, _)
SplitOn(s, sep) ==
    LET k == FindChar(s, sep, 1) IN
    IF k > Len(s) THEN <<s>>
    ELSE <<SubSeq(s, 1, k - 1)>> \o SplitOn(SubSeq(s, k + 1, Len(s)), sep)

DigitValue(c) == (CHOOSE i \in 1..Len(Digits) : Digits[i] = c) - 1

\* int(s) for s without whitespace: an optional sign, then digits only (the
\* texts of the model hold no "_", which int() also allows between digits)
IntBody(s) ==
    IF Len(s) >= 1 /\ s[1] \in {"+", "-"} THEN Tail(s) ELSE s

IsInt(s) == IntBody(s) # <<>> /\ \A i \in 1..Len(IntBody(s)) : IsDigit(IntBody(s)[i])

RECURSIVE DigitsValue(_)
DigitsValue(s) ==
    IF s = <<>> THEN 0
    ELSE 10 * DigitsValue(SubSeq(s, 1, Len(s) - 1)) + DigitValue(s[Len(s)])

IntOf(s) ==
    IF Len(s) >= 1 /\ s[1] = "-" THEN 0 - DigitsValue(IntBody(s)) ELSE DigitsValue(IntBody(s))

\* datetime.MINYEAR and datetime.MAXYEAR
MINYEAR == 1

MAXYEAR == 9999

IsLeap(year) == year % 4 = 0 /\ (year % 100 # 0 \/ year % 400 = 0)

DaysInMonth(year, month) ==
    IF month = 2 THEN (IF IsLeap(year) THEN 29 ELSE 28)
    ELSE IF month \in {4, 6, 9, 11} THEN 30 ELSE 31

\* datetime.date(year, month, day) raises ValueError unless this holds
ValidDate(year, month, day) ==
    /\ MINYEAR <= year /\ year <= MAXYEAR
    /\ 1 <= month /\ month <= 12
    /\ 1 <= day /\ day <= DaysInMonth(year, month)

NoDate == [year |-> 0, month |-> 0, day |-> 0]

\* date.__lt__ and date.__le__
DateLT(a, b) ==
    \/ a.year < b.year
    \/ a.year = b.year /\ a.month < b.month
    \/ a.year = b.year /\ a.month = b.month /\ a.day < b.day

DateLE(a, b) == a = b \/ DateLT(a, b)

\* date.max: adding a day to it raises OverflowError
DateMax == [year |-> MAXYEAR, month |-> 12, day |-> 31]

\* d + datetime.timedelta(days=1), for d below date.max
NextDay(d) ==
    IF d.day < DaysInMonth(d.year, d.month) THEN [d EXCEPT !.day = d.day + 1]
    ELSE IF d.month < 12 THEN [d EXCEPT !.month = d.month + 1, !.day = 1]
    ELSE [year |-> d.year + 1, month |-> 1, day |-> 1]

\* a faulty variant of ParseDate: datetime.date(year, month, day) is left out
ParseDateUnchecked(part) ==
    LET fields == SplitOn(part, "-") IN
    IF Len(fields) = 3 /\ \A i \in 1..3 : IsInt(fields[i])
    THEN [ok |-> TRUE,
          date |-> [year |-> IntOf(fields[3]), month |-> IntOf(fields[2]), day |-> IntOf(fields[1])]]
    ELSE [ok |-> FALSE, date |-> NoDate]

\* day, month, year = map(int, part.split('-')); datetime.date(year, month, day)
\* ok = FALSE stands for the exception either line raises.
ParseDate(part) ==
    LET fields == SplitOn(part, "-") IN
    IF /\ Len(fields) = 3
       /\ \A i \in 1..3 : IsInt(fields[i])
       /\ ValidDate(IntOf(fields[3]), IntOf(fields[2]), IntOf(fields[1]))
    THEN [ok |-> TRUE,
          date |-> [year |-> IntOf(fields[3]), month |-> IntOf(fields[2]), day |-> IntOf(fields[1])]]
    ELSE [ok |-> FALSE, date |-> NoDate]

-----------------------------------------------------------------------------
(* The classifier, the labels and the label counts *)

CANDIDATE_LABELS == <<
    <<"a","g","r","e","s","s","i","a">>,                                   \* "agressia"
    <<"t","r","e","v","o","j","n","o","s","t","q">>,                       \* "trevojnostq"
    <<"s","a","r","k","a","z","m">>,                                       \* "sarkazm"
    <<"p","o","z","i","t","i","v">>,                                       \* "pozitiv"
    \* "neytralqnoe sostoanie"
    <<"n","e","y","t","r","a","l","q","n","o","e"," ","s","o","s","t","o","a","n","i","e">> >>

\* "ne opredeleno", the label of line 278
UNDETERMINED == <<"n","e"," ","o","p","r","e","d","e","l","e","n","o">>

LabelSet == {CANDIDATE_LABELS[k] : k \in 1..Len(CANDIDATE_LABELS)}

\* What classifier(...) answers: the exception, or the labels ranked (the
\* code reads result["labels"][0] only).
ClassifierError == [ok |-> FALSE, labels |-> <<>>]

ClassifierOk(label) == [ok |-> TRUE, labels |-> <<label>>]

\* a faulty variant of PredictedEmotion: a failed call yields the neutral label
PredictedEmotionDefaultsToNeutral(result) ==
    IF result.ok /\ result.labels # <<>> THEN result.labels[1] ELSE CANDIDATE_LABELS[5]

\* lines 273-278
PredictedEmotion(result) ==
    IF result.ok /\ result.labels # <<>> THEN result.labels[1] ELSE UNDETERMINED

\* d[key] = value on a dict with string keys
DictSet(d, key, value) ==
    [k \in DOMAIN d \cup {key} |-> IF k = key THEN value ELSE d[k]]

\* d.get(key, default)
DictGet(d, key, default) == IF key \in DOMAIN d THEN d[key] ELSE default

\* lines 269-271
CombinedText(headline, first_sentence) ==
    IF first_sentence # <<>> THEN headline \o <<".", " ">> \o first_sentence ELSE headline

\* a faulty variant of EmotionCounts: the items labelled "ne opredeleno" are
\* counted as neutral
EmotionCountsSentinelAsNeutral(news_items) ==
    [label \in LabelSet |->
        Cardinality({k \in 1..Len(news_items) :
            LET emotion == DictGet(news_items[k], "predicted_emotion", <<>>)
            IN  \/ emotion = label
                \/ label = CANDIDATE_LABELS[5] /\ emotion = UNDETERMINED})]

\* lines 138-142 of generate_emotion_graph
RECURSIVE EmotionCounts(_)
EmotionCounts(news_items) ==
    IF news_items = <<>> THEN [label \in LabelSet |-> 0]
    ELSE LET counts  == EmotionCounts(SubSeq(news_items, 1, Len(news_items) - 1))
             emotion == DictGet(news_items[Len(news_items)], "predicted_emotion", <<>>)
         IN  IF emotion \in DOMAIN counts
             THEN [counts EXCEPT ![emotion] = @ + 1]
             ELSE counts

NoFile == [exists |-> FALSE]

GraphFile(counts) == [exists |-> TRUE, counts |-> counts]

\* Python floats are IEEE 754 doubles: a mantissa of 53 bits and rounding to
\* nearest, ties to even.  A mantissa is kept in three limbs,
\* hi * Limb^2 + mid * Limb + lo, with mid and lo below Limb = 2^18, so that
\* every step stays inside 32 bits for totals below 2^13.
MantissaBits == 53

Limb == 262144

RECURSIVE Power2(_)
Power2(n) == IF n = 0 THEN 1 ELSE 2 * Power2(n - 1)

\* the limbs plus one in the last place
Increment(limbs) ==
    IF limbs.lo + 1 < limbs.top THEN [limbs EXCEPT !.lo = @ + 1]
    ELSE IF limbs.mid + 1 < Limb THEN [limbs EXCEPT !.lo = 0, !.mid = @ + 1]
    ELSE [limbs EXCEPT !.lo = 0, !.mid = 0, !.hi = @ + 1]

\* round to nearest, ties to even: what is cut off is above the half of
\* the last place, or is the half and the last place is odd
RoundsUp(twice_rest, unit, last) ==
    twice_rest > unit \/ (twice_rest = unit /\ last % 2 = 1)

\* the least s with count * 2^s >= total, for 0 < count <= total
RECURSIVE LeadingShift(_, _)
LeadingShift(count, total) ==
    IF count >= total THEN 0 ELSE 1 + LeadingShift(2 * count, total)

\* count / total as a float, for 0 < count <= total: the value is
\* (hi * Limb^2 + mid * Limb + lo) * 2^(1 - MantissaBits - shift).  The
\* quotient of count * 2^shift by total starts with 1; the long division
\* gives 16 bits more in hi and 18 bits each in mid and lo, and what is
\* left of the dividend decides the rounding.
FloatDivide(count, total) ==
    LET shift == LeadingShift(count, total)
        x     == count * Power2(shift)
        hi    == (x * Power2(MantissaBits - 37)) \div total
        rem1  == (x * Power2(MantissaBits - 37)) % total
        mid   == (rem1 * Limb) \div total
        rem2  == (rem1 * Limb) % total
        lo    == (rem2 * Limb) \div total
        rem3  == (rem2 * Limb) % total
        exact == [hi |-> hi, mid |-> mid, lo |-> lo, top |-> Limb, shift |-> shift]
        up    == IF RoundsUp(2 * rem3, total, lo) THEN Increment(exact) ELSE exact
    IN  IF up.hi = Power2(MantissaBits - 36)
        THEN [up EXCEPT !.hi = @ \div 2, !.shift = @ - 1]
        ELSE up

\* the float q times 100.0, rounded: the exact product has 59 or 60 bits, of
\* which the last 6 or 7 (of lo) are cut off, so lo stays below top
Times100(q) ==
    LET p3    == q.lo * 100
        p2    == q.mid * 100 + p3 \div Limb
        p1    == q.hi * 100 + p2 \div Limb
        cut   == IF p1 >= Power2(MantissaBits - 30) THEN 128 ELSE 64
        exact == [hi |-> p1, mid |-> p2 % Limb, lo |-> (p3 % Limb) \div cut,
                  top |-> Limb \div cut, shift |-> q.shift]
    IN  IF RoundsUp(2 * ((p3 % Limb) % cut), cut, exact.lo)
        THEN Increment(exact)
        ELSE exact

\* line 251: int((progress["count"] / progress["total"]) * 100) if
\* progress["total"] > 0 else 100, in floats: the quotient is rounded, its
\* product with 100 is rounded, and int() cuts the fraction off.  The product
\* is hi * 2^(37 - MantissaBits - shift) and a fraction of that unit.
Percent(count, total) ==
    IF total <= 0 THEN 100
    ELSE IF count = 0 THEN 0
    ELSE LET product == Times100(FloatDivide(count, total))
         IN  product.hi \div Power2(MantissaBits - 37 + product.shift)

\* call.data.split("_", 1)[1]
AfterFirstUnderscore(data) == SubSeq(data, FindChar(data, "_", 1) + 1, Len(data))

\* line 296: the filter of the callback handler
IsEmotionCallback(data) == StartsWith(data, <<"e","m","o","t","i","o","n","_">>)

\* a faulty variant of SelectedEmotion: .lower() is left out
SelectedEmotionAsSent(data) == AfterFirstUnderscore(data)

\* line 302
SelectedEmotion(data) == Lower(AfterFirstUnderscore(data))

\* line 304
FilterNews(news_items, selected_emotion) ==
    SelectSeq(news_items,
              LAMBDA news : Lower(DictGet(news, "predicted_emotion", <<>>)) = selected_emotion)

-----------------------------------------------------------------------------
(* Handler threads *)

Workers == {"t1", "t2"}

Chats == {1, 2}

EmptyFrame ==
    [chat_id          |-> 0,
     date_obj         |-> NoDate,
     start_date       |-> NoDate,
     end_date         |-> NoDate,
     current_date     |-> NoDate,
     news_by_day      |-> <<>>,
     aggregated_news  |-> <<>>,
     i                |-> 0,        \* the index of the item the for loop of line 267 is at
     result           |-> ClassifierError,  \* what classifier(...) last answered
     photo            |-> NoFile,   \* what open(graph_file, 'rb') read
     text             |-> <<>>,     \* message.text.strip()
     data             |-> <<>>,     \* call.data
     selected_emotion |-> <<>>,
     filtered_news    |-> <<>>]

NoProgress == [count |-> 0, total |-> 0, done |-> FALSE]

\* percent, ok: the last edit the reporter tried (-1: none yet) and whether it
\* went through; finals: how many times line 259 ran
NoEmits == [percent |-> -1, ok |-> TRUE, finals |-> 0]

InitBot ==
    /\ pc = [w \in Workers |-> "idle"]
    /\ frame = [w \in Workers |-> EmptyFrame]
    /\ progress = [w \in Workers |-> NoProgress]
    /\ rpc = [w \in Workers |-> "none"]
    /\ emits = [w \in Workers |-> NoEmits]
    /\ reply = [w \in Workers |-> "none"]
    /\ user_context = <<>>
    /\ emotion_graph_png = NoFile

\* the handler returns: its locals, its progress dict and its thread object go
Return(w, message) ==
    /\ pc' = [pc EXCEPT ![w] = "idle"]
    /\ frame' = [frame EXCEPT ![w] = EmptyFrame]
    /\ progress' = [progress EXCEPT ![w] = NoProgress]
    /\ rpc' = [rpc EXCEPT ![w] = "none"]
    /\ emits' = [emits EXCEPT ![w] = NoEmits]
    /\ reply' = [reply EXCEPT ![w] = message]

\* lines 242-265, with aggregated_news as collected
StartTagging(w, news) ==
    IF news = <<>>
    THEN Return(w, "no_news")
    ELSE /\ pc' = [pc EXCEPT ![w] = "tag"]
         /\ frame' = [frame EXCEPT ![w].aggregated_news = news, ![w].i = 1]
         /\ progress' = [progress EXCEPT ![w] = [count |-> 0, total |-> Len(news), done |-> FALSE]]
         /\ rpc' = [rpc EXCEPT ![w] = "while"]
         /\ emits' = [emits EXCEPT ![w] = NoEmits]
         /\ reply' = [reply EXCEPT ![w] = "progress_0"]

\* lines 211-214: a text message arrives; text = message.text.strip()
Receive(w, texts) ==
    /\ pc[w] = "idle"
    /\ queries_left > 0
    /\ queries_left' = queries_left - 1
    /\ \E chat \in Chats, message_text \in texts :
          frame' = [frame EXCEPT ![w] =
                       [EmptyFrame EXCEPT !.chat_id = chat, !.text = Strip(message_text)]]
    /\ pc' = [pc EXCEPT ![w] = "try"]
    /\ reply' = [reply EXCEPT ![w] = "none"]
    /\ UNCHANGED <<progress, rpc, emits, user_context, emotion_graph_png, crawlVars>>

\* lines 213, 216-219, 222-228 and 235-240: the text is split and parsed, up
\* to the call of get_news_for_day or get_news_for_date_range
ParseInput(w) ==
    /\ pc[w] = "try"
    /\ LET parts == SplitWhitespace(frame[w].text)
           d1    == ParseDate(parts[1])
           d2    == ParseDate(parts[2])
           swap  == DateLT(d2.date, d1.date)
       IN  IF Len(parts) = 1
           THEN IF d1.ok
                THEN /\ pc' = [pc EXCEPT ![w] = "get_news_for_day"]
                     /\ frame' = [frame EXCEPT ![w].date_obj = d1.date]
                     /\ UNCHANGED <<progress, rpc, emits, reply>>
                ELSE Return(w, "input_error")
           ELSE IF Len(parts) = 2
           THEN IF d1.ok /\ d2.ok
                THEN /\ pc' = [pc EXCEPT ![w] = "get_news_for_date_range"]
                     /\ frame' = [frame EXCEPT
                                     ![w].start_date = IF swap THEN d2.date ELSE d1.date,
                                     ![w].end_date = IF swap THEN d1.date ELSE d2.date,
                                     ![w].current_date = IF swap THEN d2.date ELSE d1.date]
                     /\ UNCHANGED <<progress, rpc, emits, reply>>
                ELSE Return(w, "input_error")
           ELSE Return(w, "bad_format")
    /\ UNCHANGED <<user_context, emotion_graph_png, queries_left, crawlVars>>

\* lines 220-221 and 242-265: the day's page is fetched and crawled
CrawlSingle(w, pages) ==
    /\ pc[w] = "get_news_for_day"
    /\ \E response \in pages :
          IF SoupRaises(response)
          THEN /\ pc' = [pc EXCEPT ![w] = "except"]
               /\ UNCHANGED <<frame, progress, rpc, emits, reply>>
          ELSE StartTagging(w, get_news_for_day(response))
    /\ UNCHANGED <<user_context, emotion_graph_png, queries_left, crawlVars>>

\* lines 128-130: one turn of the loop of get_news_for_date_range
RangeIter(w, pages) ==
    /\ pc[w] = "get_news_for_date_range"
    /\ DateLE(frame[w].current_date, frame[w].end_date)
    /\ \E response \in pages :
          IF SoupRaises(response)
          THEN /\ pc' = [pc EXCEPT ![w] = "except"]
               /\ UNCHANGED frame
          ELSE LET put == DictPut(frame[w].news_by_day, frame[w].current_date,
                                  get_news_for_day(response))
               IN  IF frame[w].current_date = DateMax
                   THEN \* current_date += delta raises OverflowError
                        /\ pc' = [pc EXCEPT ![w] = "except"]
                        /\ frame' = [frame EXCEPT ![w].news_by_day = put]
                   ELSE /\ frame' = [frame EXCEPT ![w].news_by_day = put,
                                                  ![w].current_date = NextDay(@)]
                        /\ UNCHANGED pc
    /\ UNCHANGED <<progress, rpc, emits, reply, user_context, emotion_graph_png,
                   queries_left, crawlVars>>

\* lines 128 and 131: the loop ends and news_by_day is returned
RangeReturn(w) ==
    /\ pc[w] = "get_news_for_date_range"
    /\ ~DateLE(frame[w].current_date, frame[w].end_date)
    /\ pc' = [pc EXCEPT ![w] = "aggregate"]
    /\ UNCHANGED <<frame, progress, rpc, emits, reply, user_context, emotion_graph_png,
                   queries_left, crawlVars>>

\* a faulty variant of Aggregated: an item whose URL a later day has too is
\* replaced by that day's item
RECURSIVE AggregatedUniqueByUrl(_)
AggregatedUniqueByUrl(news_range) ==
    IF news_range = <<>> THEN <<>>
    ELSE LET date_key  == Head(news_range)[1]
             news_list == Head(news_range)[2]
             later     == AggregatedUniqueByUrl(Tail(news_range))
             dated     == [k \in 1..Len(news_list) |-> DictSet(news_list[k], "date", date_key)]
         IN  SelectSeq(dated, LAMBDA news : \A k \in 1..Len(later) : later[k].url # news.url)
             \o later

\* lines 230-233: every item gets its day's date and joins aggregated_news
RECURSIVE Aggregated(_)
Aggregated(news_range) ==
    IF news_range = <<>> THEN <<>>
    ELSE LET date_key  == Head(news_range)[1]
             news_list == Head(news_range)[2]
         IN  [k \in 1..Len(news_list) |-> DictSet(news_list[k], "date", date_key)]
             \o Aggregated(Tail(news_range))

\* lines 230-234 and 242-265
Aggregate(w) ==
    /\ pc[w] = "aggregate"
    /\ StartTagging(w, Aggregated(frame[w].news_by_day))
    /\ UNCHANGED <<user_context, emotion_graph_png, queries_left, crawlVars>>

\* lines 238-240: an exception of the crawl is reported and the handler returns
HandleException(w) ==
    /\ pc[w] = "except"
    /\ Return(w, "input_error")
    /\ UNCHANGED <<user_context, emotion_graph_png, queries_left, crawlVars>>

\* a faulty variant of TaggedItem: the except branch of line 277 sets no label
TaggedItemUnlabelledOnError(news, first_sentence, result) ==
    LET with_text == DictSet(news, "combined_text", CombinedText(news.headline, first_sentence))
    IN  IF result.ok THEN DictSet(with_text, "predicted_emotion", PredictedEmotion(result))
        ELSE with_text

\* lines 269-278: the item after its turn of the loop
TaggedItem(news, first_sentence, result) ==
    DictSet(DictSet(news, "combined_text", CombinedText(news.headline, first_sentence)),
            "predicted_emotion", PredictedEmotion(result))

\* lines 268-278: the article is fetched, the text is classified, the item
\* gets combined_text and predicted_emotion.  An exception of line 59 leaves
\* the handler (nothing in process_date_input catches it): the handler is
\* over, the reporter thread it started is left running, and the model lets
\* this worker take no further update.
TagItem(w, articles, results) ==
    /\ pc[w] = "tag"
    /\ \E response \in articles :
          IF SoupRaises(response)
          THEN /\ pc' = [pc EXCEPT ![w] = "crashed"]
               /\ UNCHANGED frame
          ELSE \E result \in results :
                  LET i      == frame[w].i
                      news   == frame[w].aggregated_news[i]
                      tagged == TaggedItem(news, get_first_sentence(response), result)
                  IN  /\ frame' = [frame EXCEPT ![w].aggregated_news[i] = tagged,
                                                 ![w].result = result]
                      /\ pc' = [pc EXCEPT ![w] = "count"]
    /\ UNCHANGED <<progress, rpc, emits, reply, user_context, emotion_graph_png,
                   queries_left, crawlVars>>

\* a faulty variant of CountItem: the loop leaves out the item after the
\* one it counted
CountItemSkipsAnItem(w) ==
    /\ pc[w] = "count"
    /\ progress' = [progress EXCEPT ![w].count = @ + 1]
    /\ IF frame[w].i + 1 < Len(frame[w].aggregated_news)
       THEN /\ frame' = [frame EXCEPT ![w].i = @ + 2]
            /\ pc' = [pc EXCEPT ![w] = "tag"]
       ELSE /\ pc' = [pc EXCEPT ![w] = "set_done"]
            /\ UNCHANGED frame
    /\ UNCHANGED <<rpc, emits, reply, user_context, emotion_graph_png, queries_left, crawlVars>>

\* a faulty variant of CountItem: line 279 moved into the try of line 273
CountItemOnSuccessOnly(w) ==
    /\ pc[w] = "count"
    /\ progress' = [progress EXCEPT ![w].count = IF frame[w].result.ok THEN @ + 1 ELSE @]
    /\ IF frame[w].i < Len(frame[w].aggregated_news)
       THEN /\ frame' = [frame EXCEPT ![w].i = @ + 1]
            /\ pc' = [pc EXCEPT ![w] = "tag"]
       ELSE /\ pc' = [pc EXCEPT ![w] = "set_done"]
            /\ UNCHANGED frame
    /\ UNCHANGED <<rpc, emits, reply, user_context, emotion_graph_png, queries_left, crawlVars>>

\* line 279, and line 267: the loop goes to the next item or ends
CountItem(w) ==
    /\ pc[w] = "count"
    /\ progress' = [progress EXCEPT ![w].count = @ + 1]
    /\ IF frame[w].i < Len(frame[w].aggregated_news)
       THEN /\ frame' = [frame EXCEPT ![w].i = @ + 1]
            /\ pc' = [pc EXCEPT ![w] = "tag"]
       ELSE /\ pc' = [pc EXCEPT ![w] = "set_done"]
            /\ UNCHANGED frame
    /\ UNCHANGED <<rpc, emits, reply, user_context, emotion_graph_png, queries_left, crawlVars>>

\* line 281
SetDone(w) ==
    /\ pc[w] = "set_done"
    /\ progress' = [progress EXCEPT ![w].done = TRUE]
    /\ pc' = [pc EXCEPT ![w] = "join"]
    /\ UNCHANGED <<frame, rpc, emits, reply, user_context, emotion_graph_png,
                   queries_left, crawlVars>>

\* a faulty variant of Join: the handler goes on while the reporter still runs
JoinWithoutWaiting(w) ==
    /\ pc[w] = "join"
    /\ pc' = [pc EXCEPT ![w] = "store"]
    /\ UNCHANGED <<frame, progress, rpc, emits, reply, user_context, emotion_graph_png,
                   queries_left, crawlVars>>

\* line 282: progress_thread.join() returns once update_progress has returned
Join(w) ==
    /\ pc[w] = "join"
    /\ rpc[w] = "exited"
    /\ pc' = [pc EXCEPT ![w] = "store"]
    /\ UNCHANGED <<frame, progress, rpc, emits, reply, user_context, emotion_graph_png,
                   queries_left, crawlVars>>

\* a faulty variant of Stored: the items are stored as they were crawled
StoredAsCollected(context, chat_id, aggregated_news) ==
    DictSet(context, chat_id,
            [k \in 1..Len(aggregated_news) |->
                [key \in DOMAIN aggregated_news[k] \ {"predicted_emotion"} |->
                    aggregated_news[k][key]]])

\* a faulty variant of Stored: the new batch is appended to the old one
StoredExtendsTheOldBatch(context, chat_id, aggregated_news) ==
    DictSet(context, chat_id, DictGet(context, chat_id, <<>>) \o aggregated_news)

\* a faulty variant of Stored: one record shared by all chats
StoredForEveryChat(context, chat_id, aggregated_news) ==
    [chat \in DOMAIN context \cup Chats |-> aggregated_news]

\* user_context[chat_id] = aggregated_news
Stored(context, chat_id, aggregated_news) == DictSet(context, chat_id, aggregated_news)

\* line 284.  The dict keeps the list object itself; no line after 284 writes
\* to the list or to its items, so the stored value is the list as it is now.
Store(w) ==
    /\ pc[w] = "store"
    /\ user_context' = Stored(user_context, frame[w].chat_id, frame[w].aggregated_news)
    /\ pc' = [pc EXCEPT ![w] = "graph"]
    /\ UNCHANGED <<frame, progress, rpc, emits, reply, emotion_graph_png,
                   queries_left, crawlVars>>

\* line 286: generate_emotion_graph writes emotion_graph.png
Graph(w) ==
    /\ pc[w] = "graph"
    /\ emotion_graph_png' = GraphFile(EmotionCounts(frame[w].aggregated_news))
    /\ pc' = [pc EXCEPT ![w] = "send_photo"]
    /\ UNCHANGED <<frame, progress, rpc, emits, reply, user_context, queries_left, crawlVars>>

\* lines 287-288: the file is opened again and sent
SendPhoto(w) ==
    /\ pc[w] = "send_photo"
    /\ frame' = [frame EXCEPT ![w].photo = emotion_graph_png]
    /\ reply' = [reply EXCEPT ![w] = "photo"]
    /\ pc' = [pc EXCEPT ![w] = "send_menu"]
    /\ UNCHANGED <<progress, rpc, emits, user_context, emotion_graph_png,
                   queries_left, crawlVars>>

\* lines 290-293: the buttons are sent and the handler returns
SendMenu(w) ==
    /\ pc[w] = "send_menu"
    /\ Return(w, "menu")
    /\ UNCHANGED <<user_context, emotion_graph_png, queries_left, crawlVars>>

-----------------------------------------------------------------------------
(* update_progress, the reporter thread of a query *)

\* line 250: the loop condition
ReporterCheck(w) ==
    /\ rpc[w] = "while"
    /\ rpc' = [rpc EXCEPT ![w] = IF progress[w].done THEN "final" ELSE "emit"]
    /\ UNCHANGED <<pc, frame, progress, emits, reply, user_context, emotion_graph_png,
                   queries_left, crawlVars>>

\* a faulty variant of AfterEdit: a failed edit ends update_progress
AfterEditUncaught(ok) == IF ok THEN "while" ELSE "exited"

\* lines 252-257: "except Exception: pass", then the sleep and the loop again
AfterEdit(ok) == "while"

\* lines 251-257: the percent is computed and the edit is tried; an exception
\* of the edit is passed over
ReporterEmit(w) ==
    /\ rpc[w] = "emit"
    /\ \E ok \in BOOLEAN :
          /\ emits' = [emits EXCEPT ![w] =
                         [percent |-> Percent(progress[w].count, progress[w].total),
                          ok      |-> ok,
                          finals  |-> @.finals]]
          /\ rpc' = [rpc EXCEPT ![w] = AfterEdit(ok)]
    /\ UNCHANGED <<pc, frame, progress, reply, user_context, emotion_graph_png,
                   queries_left, crawlVars>>

\* lines 258-262: the edit at 100 is tried once and the thread ends
ReporterFinal(w) ==
    /\ rpc[w] = "final"
    /\ \E ok \in BOOLEAN :
          emits' = [emits EXCEPT ![w] =
                      [percent |-> 100, ok |-> ok, finals |-> @.finals + 1]]
    /\ rpc' = [rpc EXCEPT ![w] = "exited"]
    /\ UNCHANGED <<pc, frame, progress, reply, user_context, emotion_graph_png,
                   queries_left, crawlVars>>

-----------------------------------------------------------------------------
(* callback_emotion *)

\* lines 301-304: a button press arrives and the stored batch is filtered
CallbackEmotion(w, datas) ==
    /\ pc[w] = "idle"
    /\ \E chat \in Chats, data \in datas :
          /\ IsEmotionCallback(data)
          /\ LET selected_emotion == SelectedEmotion(data)
                 news_items == DictGet(user_context, chat, <<>>)
             IN  frame' = [frame EXCEPT ![w] =
                             [EmptyFrame EXCEPT
                                 !.chat_id = chat,
                                 !.data = data,
                                 !.selected_emotion = selected_emotion,
                                 !.filtered_news = FilterNews(news_items, selected_emotion)]]
    /\ pc' = [pc EXCEPT ![w] = "send_filtered"]
    /\ reply' = [reply EXCEPT ![w] = "none"]
    /\ UNCHANGED <<progress, rpc, emits, user_context, emotion_graph_png,
                   queries_left, crawlVars>>

\* lines 306-313: the answer is sent and the handler returns
SendFiltered(w) ==
    /\ pc[w] = "send_filtered"
    /\ Return(w, IF frame[w].filtered_news # <<>> THEN "filtered" ELSE "nothing_filtered")
    /\ UNCHANGED <<user_context, emotion_graph_png, queries_left, crawlVars>>

-----------------------------------------------------------------------------
(* What the web, the classifier and the users may send *)

\* "Vajnaa novostq16:45, 3 marta 2025dop.tekst" -> /news/x
LinkDated ==
    [text |-> <<"V","a","j","n","a","a"," ","n","o","v","o","s","t","q","1","6",":","4","5",","," ","3"," ","m","a","r","t","a"," ","2","0","2","5","d","o","p",".","t","e","k","s","t">>,
     href |-> <<"/","n","e","w","s","/","x">>]

\* " Drugoy zagolovok " -> https://lenta.ru/news/x
LinkAbsolute ==
    [text |-> <<" ","D","r","u","g","o","y"," ","z","a","g","o","l","o","v","o","k"," ">>,
     href |-> <<"h","t","t","p","s",":","/","/","l","e","n","t","a",".","r","u","/","n","e","w","s","/","x">>]

\* "ab" -> /news/x
LinkShort ==
    [text |-> <<"a","b">>,
     href |-> <<"/","n","e","w","s","/","x">>]

\* "Internet i SMI" -> news/y
LinkRelative ==
    [text |-> <<"I","n","t","e","r","n","e","t"," ","i"," ","S","M","I">>,
     href |-> <<"n","e","w","s","/","y">>]

\* "Nauka i Tehnika" -> /news/y
LinkRubric ==
    [text |-> <<"N","a","u","k","a"," ","i"," ","T","e","h","n","i","k","a">>,
     href |-> <<"/","n","e","w","s","/","y">>]

\* "Reklama partnera" -> /parts/z
LinkParts ==
    [text |-> <<"R","e","k","l","a","m","a"," ","p","a","r","t","n","e","r","a">>,
     href |-> <<"/","p","a","r","t","s","/","z">>]

\* "Bez ssylki sovsem", an <a> without href
LinkNoHref ==
    [text |-> <<"B","e","z"," ","s","s","y","l","k","i"," ","s","o","v","s","e","m">>]

LinkCandidates ==
    {LinkDated, LinkAbsolute, LinkShort, LinkRelative, LinkRubric, LinkParts, LinkNoHref}

\* the longest index page of SpecCrawl
MaxLinks == 3

RECURSIVE SeqsUpTo(_, _)
SeqsUpTo(S, n) ==
    IF n = 0 THEN {<<>>}
    ELSE LET shorter == SeqsUpTo(S, n - 1) IN
         shorter \cup {Append(q, x) : q \in shorter, x \in S}

CrawlPages ==
    {FetchError, RejectedMarkup}
        \cup {FetchOk(anchors) : anchors \in SeqsUpTo(LinkCandidates, MaxLinks)}

\* the index pages a query meets: the one that parses crawls to one item
IndexPages ==
    {FetchError, RejectedMarkup,
     FetchOk(<<LinkShort, LinkAbsolute, LinkDated, LinkParts>>)}

\* "Pervoe predlojenie. Vtoroe predlojenie."
ArticleText == <<"P","e","r","v","o","e"," ","p","r","e","d","l","o","j","e","n","i","e","."," ","V","t","o","r","o","e"," ","p","r","e","d","l","o","j","e","n","i","e",".">>

ArticlePages ==
    {FetchError, RejectedMarkup, ArticleOk([body_p |-> ArticleText, first_p |-> ArticleText])}

\* the call raises, or answers with "sarkazm", "pozitiv" or "neytralqnoe
\* sostoanie" on top
ClassifierResults ==
    {ClassifierError} \cup {ClassifierOk(CANDIDATE_LABELS[k]) : k \in {3, 4, 5}}

Texts == {
    <<"1","5","-","0","3","-","2","0","2","5">>,                  \* "15-03-2025"
    <<" ","1","5","-","0","3","-","2","0","2","5","\n">>,         \* " 15-03-2025\n"
    \* "28-02-2024 01-03-2024"
    <<"2","8","-","0","2","-","2","0","2","4"," ","0","1","-","0","3","-","2","0","2","4">>,
    \* "31-12-2024 01-01-2025"
    <<"3","1","-","1","2","-","2","0","2","4"," ","0","1","-","0","1","-","2","0","2","5">>,
    \* "02-01-2025 01-01-2025"
    <<"0","2","-","0","1","-","2","0","2","5"," ","0","1","-","0","1","-","2","0","2","5">>,
    \* "30-12-9999 31-12-9999"
    <<"3","0","-","1","2","-","9","9","9","9"," ","3","1","-","1","2","-","9","9","9","9">>,
    <<"3","1","-","0","2","-","2","0","2","5">>,                  \* "31-02-2025"
    <<"1","5","-","0","3">>,                                      \* "15-03"
    <<"a","a","-","0","3","-","2","0","2","5">>,                  \* "aa-03-2025"
    <<>>,                                                         \* ""
    \* "1-1-2025 2-1-2025 3-1-2025"
    <<"1","-","1","-","2","0","2","5"," ","2","-","1","-","2","0","2","5"," ","3","-","1","-","2","0","2","5">>,
    \* "15-03-2025 xx"
    <<"1","5","-","0","3","-","2","0","2","5"," ","x","x">> }

\* the callback data of the five buttons (line 292), and two more a client
\* may send: a label in capitals and the label of line 278
CallbackDatas ==
    {<<"e","m","o","t","i","o","n","_">> \o label : label \in LabelSet}
        \cup {<<"e","m","o","t","i","o","n","_","S","a","r","k","a","z","m">>,
              <<"e","m","o","t","i","o","n","_">> \o UNDETERMINED}

-----------------------------------------------------------------------------
(* SpecQuery: one handler thread serves one date message, and any number of
   button presses before and after it, against the whole environment *)

InitCrawlIdle ==
    /\ crawl_pc = "returned"
    /\ crawl_page = FetchError
    /\ crawl_result = <<>>

InitQuery == InitBot /\ queries_left = 1 /\ InitCrawlIdle

NextQuery ==
    \E w \in {"t1"} :
        \/ Receive(w, Texts)
        \/ ParseInput(w)
        \/ CrawlSingle(w, IndexPages)
        \/ RangeIter(w, IndexPages)
        \/ RangeReturn(w)
        \/ Aggregate(w)
        \/ HandleException(w)
        \/ TagItem(w, ArticlePages, ClassifierResults)
        \/ CountItem(w)
        \/ SetDone(w)
        \/ Join(w)
        \/ Store(w)
        \/ Graph(w)
        \/ SendPhoto(w)
        \/ SendMenu(w)
        \/ ReporterCheck(w)
        \/ ReporterEmit(w)
        \/ ReporterFinal(w)
        \/ CallbackEmotion(w, CallbackDatas)
        \/ SendFiltered(w)

vars == <<botVars, crawlVars>>

SpecQuery == InitQuery /\ [][NextQuery]_vars

-----------------------------------------------------------------------------
(* Spec: two handler threads serve up to MaxQueries date messages and any
   number of button presses, of two chats, in any interleaving, against a
   small environment *)

MaxQueries == 2

\* "15-03-2025" and "aa-03-2025"
FewTexts == {
    <<"1","5","-","0","3","-","2","0","2","5">>,
    <<"a","a","-","0","3","-","2","0","2","5">> }

FewIndexPages == {FetchError, FetchOk(<<LinkShort, LinkAbsolute, LinkDated, LinkParts>>)}

FewArticlePages == {FetchError}

FewClassifierResults ==
    {ClassifierError, ClassifierOk(CANDIDATE_LABELS[4])}

\* "emotion_Pozitiv", "emotion_sarkazm", "emotion_ne opredeleno"
FewCallbackDatas == {
    <<"e","m","o","t","i","o","n","_","P","o","z","i","t","i","v">>,
    <<"e","m","o","t","i","o","n","_">> \o CANDIDATE_LABELS[3],
    <<"e","m","o","t","i","o","n","_">> \o UNDETERMINED }

Init == InitBot /\ queries_left = MaxQueries /\ InitCrawlIdle

Next ==
    \E w \in Workers :
        \/ Receive(w, FewTexts)
        \/ ParseInput(w)
        \/ CrawlSingle(w, FewIndexPages)
        \/ TagItem(w, FewArticlePages, FewClassifierResults)
        \/ CountItem(w)
        \/ SetDone(w)
        \/ Join(w)
        \/ Store(w)
        \/ Graph(w)
        \/ SendPhoto(w)
        \/ SendMenu(w)
        \/ ReporterCheck(w)
        \/ ReporterEmit(w)
        \/ ReporterFinal(w)
        \/ CallbackEmotion(w, FewCallbackDatas)
        \/ SendFiltered(w)

Spec == Init /\ [][Next]_vars

-----------------------------------------------------------------------------
(* SpecRun: one handler thread serves one message with a single date, its
   threads being scheduled: a handler that has called get_news_for_day and
   can go on does, and so does a reporter (requests.get, the classifier and
   the Telegram calls return or raise; time.sleep(0.5) returns) *)

\* "15-03-2025" and "31-02-2025"
RunTexts == {
    <<"1","5","-","0","3","-","2","0","2","5">>,
    <<"3","1","-","0","2","-","2","0","2","5">> }

RunIndexPages ==
    {FetchError, RejectedMarkup, FetchOk(<<LinkAbsolute, LinkRubric, LinkParts>>)}

\* a step of the handler that thread w runs, from the call of line 220 on
HandlerStep(w) ==
    \/ CrawlSingle(w, RunIndexPages)
    \/ HandleException(w)
    \/ TagItem(w, ArticlePages, FewClassifierResults)
    \/ CountItem(w)
    \/ SetDone(w)
    \/ Join(w)
    \/ Store(w)
    \/ Graph(w)
    \/ SendPhoto(w)
    \/ SendMenu(w)

\* a step of update_progress, on the thread of line 264
ReporterStep(w) == ReporterCheck(w) \/ ReporterEmit(w) \/ ReporterFinal(w)

\* the handler thread that serves the message
RunWorkers == {"t1"}

NextRun ==
    \E w \in RunWorkers :
        \/ Receive(w, RunTexts)
        \/ ParseInput(w)
        \/ HandlerStep(w)
        \/ ReporterStep(w)

SpecRun ==
    /\ InitQuery
    /\ [][NextRun]_vars
    /\ \A w \in RunWorkers : WF_vars(HandlerStep(w)) /\ WF_vars(ReporterStep(w))

-----------------------------------------------------------------------------
(* SpecPercent: one handler thread serves one message with a range of fifty
   days; every day's page crawls to one item, so the batch has fifty items,
   and the reporter polls the count at any moments of the tagging run *)

\* "01-01-2025 19-02-2025"
PercentTexts == {
    <<"0","1","-","0","1","-","2","0","2","5"," ","1","9","-","0","2","-","2","0","2","5">> }

PercentIndexPages == {FetchOk(<<LinkAbsolute>>)}

PercentArticlePages == {FetchError}

PercentClassifierResults == {ClassifierOk(CANDIDATE_LABELS[4])}

NextPercent ==
    \E w \in {"t1"} :
        \/ Receive(w, PercentTexts)
        \/ ParseInput(w)
        \/ RangeIter(w, PercentIndexPages)
        \/ RangeReturn(w)
        \/ Aggregate(w)
        \/ TagItem(w, PercentArticlePages, PercentClassifierResults)
        \/ CountItem(w)
        \/ SetDone(w)
        \/ Join(w)
        \/ Store(w)
        \/ Graph(w)
        \/ SendPhoto(w)
        \/ SendMenu(w)
        \/ ReporterCheck(w)
        \/ ReporterEmit(w)
        \/ ReporterFinal(w)

SpecPercent == InitQuery /\ [][NextPercent]_vars

-----------------------------------------------------------------------------
(* SpecCrawl: one call of get_news_for_day on every index page of up to
   MaxLinks links *)

InitCrawl ==
    /\ InitBot /\ queries_left = 0
    /\ crawl_pc = "call"
    /\ crawl_page \in CrawlPages
    /\ crawl_result = <<>>

\* one call get_news_for_day(date_obj), the web answering crawl_page
CrawlDay ==
    /\ crawl_pc = "call"
    /\ IF SoupRaises(crawl_page)
       THEN /\ crawl_pc' = "raised"
            /\ UNCHANGED crawl_result
       ELSE /\ crawl_pc' = "returned"
            /\ crawl_result' = get_news_for_day(crawl_page)
    /\ UNCHANGED <<crawl_page, botVars>>

SpecCrawl == InitCrawl /\ [][CrawlDay]_vars

-----------------------------------------------------------------------------
(* The claims *)

\* where a handler stands once progress_thread.join() has returned
AfterJoin == {"store", "graph", "send_photo", "send_menu"}

\* where a handler stands once the loop of lines 267-279 has ended
AfterLoop == {"set_done", "join"} \cup AfterJoin

\* where a handler stands while its query has not reached line 246
Collecting == {"try", "get_news_for_day", "get_news_for_date_range", "aggregate", "except"}

HasLabel(news) == "predicted_emotion" \in DOMAIN news

Labelled(news_items) ==
    \A k \in 1..Len(news_items) :
        /\ HasLabel(news_items[k])
        /\ news_items[k].predicted_emotion \in LabelSet \cup {UNDETERMINED}

RECURSIVE ItemsIn(_)
ItemsIn(news_range) ==
    IF news_range = <<>> THEN 0 ELSE Len(Head(news_range)[2]) + ItemsIn(Tail(news_range))

\* C1: once the tagging loop of a query has ended, the batch has as many
\* items as were collected and every item carries one label, which is one of
\* the five candidate labels or "ne opredeleno"; while a query is still
\* collecting, none of its items has a label.
C1_LabelInvariant ==
    \A w \in Workers :
        /\ pc[w] \in AfterLoop =>
              /\ Len(frame[w].aggregated_news) = progress[w].total
              /\ frame[w].start_date # NoDate =>
                    Len(frame[w].aggregated_news) = ItemsIn(frame[w].news_by_day)
              /\ Labelled(frame[w].aggregated_news)
        /\ pc[w] \in Collecting =>
              /\ \A k \in 1..Len(frame[w].aggregated_news) :
                    ~HasLabel(frame[w].aggregated_news[k])
              /\ \A d \in 1..Len(frame[w].news_by_day) :
                    \A k \in 1..Len(frame[w].news_by_day[d][2]) :
                        ~HasLabel(frame[w].news_by_day[d][2][k])

\* a run over two items or more has returned with a failure and a success
C1_Witness ==
    \E w \in Workers :
        /\ pc[w] = "store"
        /\ \E j, k \in 1..Len(frame[w].aggregated_news) :
              /\ frame[w].aggregated_news[j].predicted_emotion = UNDETERMINED
              /\ frame[w].aggregated_news[k].predicted_emotion \in LabelSet

C3_ReturnsAfterFinalEmit ==
    /\ [](\A w \in Workers :
             /\ rpc[w] \in {"final", "exited"} => progress[w].done
             /\ emits[w].finals <= 1
             /\ pc[w] \in AfterJoin =>
                   /\ rpc[w] = "exited"
                   /\ emits[w].finals = 1
                   /\ emits[w].percent = 100)
    /\ [][\A w \in Workers :
             (pc[w] \in AfterJoin /\ pc'[w] \in AfterJoin) =>
                 emits'[w] = emits[w] /\ rpc'[w] = rpc[w]]_vars

\* the batch of a run has been stored
C3_Witness ==
    \E w \in Workers :
        pc[w] = "graph" /\ emits[w].finals = 1 /\ frame[w].chat_id \in DOMAIN user_context

\* the record of chat in the store, <<>> when there is none (the store holds
\* no empty batch: line 242 returns before one is stored)
Record(context, chat) == IF chat \in DOMAIN context THEN context[chat] ELSE <<>>

\* thread w runs line 284 in this step
StoreStep(w) == pc[w] = "store" /\ pc'[w] = "graph"

\* C4: the store starts empty; the record of a chat is never deleted; it
\* changes only when a query of that chat whose tagging run has ended runs
\* line 284, and then it is that query's batch, whole and nothing else.
C4_SessionRecord ==
    /\ [](\A chat \in DOMAIN user_context : chat \in Chats /\ user_context[chat] # <<>>)
    /\ [][\A chat \in Chats :
             /\ chat \in DOMAIN user_context => chat \in DOMAIN user_context'
             /\ Record(user_context', chat) # Record(user_context, chat) =>
                   \E w \in Workers : StoreStep(w) /\ frame[w].chat_id = chat
             /\ \A w \in Workers :
                   (StoreStep(w) /\ frame[w].chat_id = chat) =>
                       /\ progress[w].done
                       /\ progress[w].count = Len(frame[w].aggregated_news)
                       /\ rpc[w] = "exited"
                       /\ Record(user_context', chat) = frame[w].aggregated_news]_vars

\* two queries of one chat have stored, and the record is the batch of the
\* later one, which differs from the batch of the earlier one
C4_Witness ==
    \E v, w \in Workers :
        /\ v # w
        /\ frame[v].chat_id = frame[w].chat_id
        /\ pc[v] = "send_photo"
        /\ pc[w] = "graph"
        /\ frame[v].aggregated_news # frame[w].aggregated_news
        /\ user_context[frame[w].chat_id] = frame[w].aggregated_news

\* a and b are equal up to letter case
EqualIgnoringCase(a, b) ==
    Len(a) = Len(b) /\ \A k \in 1..Len(a) : LowerChar(a[k]) = LowerChar(b[k])

\* the label a button press asks for: call.data without "emotion_"
AskedLabel(data) == SubSeq(data, 9, Len(data))

\* thread w runs lines 301-304 in this step
FilterStep(w) == pc[w] = "idle" /\ pc'[w] = "send_filtered"

\* C5: what a button press of a chat gets is the stored batch of that chat
\* (the empty list when it has none) cut down to the items whose label
\* equals the asked label up to letter case, in stored order.
C5_FilterByEmotion ==
    [][\A w \in Workers :
          FilterStep(w) =>
              frame'[w].filtered_news =
                  SelectSeq(Record(user_context, frame'[w].chat_id),
                            LAMBDA news :
                                /\ HasLabel(news)
                                /\ EqualIgnoringCase(news.predicted_emotion,
                                                     AskedLabel(frame'[w].data)))]_vars

\* a label asked in capitals has picked some items of a stored batch, not all
C5_Witness ==
    \E w \in Workers :
        /\ pc[w] = "send_filtered"
        /\ frame[w].data # Lower(frame[w].data)
        /\ frame[w].filtered_news # <<>>
        /\ Len(frame[w].filtered_news) < Len(Record(user_context, frame[w].chat_id))

\* thread w, or the reporter of its query, takes this step
StepOf(w) ==
    <<pc[w], frame[w], progress[w], rpc[w], emits[w], reply[w]>>
        # <<pc'[w], frame'[w], progress'[w], rpc'[w], emits'[w], reply'[w]>>

\* the chat thread w works for in this step
ChatOf(w) == IF frame[w].chat_id # 0 THEN frame[w].chat_id ELSE frame'[w].chat_id

\* C6: no step of a query or of a button press of one chat changes the
\* record of another chat, nor makes or removes one.
C6_ChatsIndependent ==
    [][\A w \in Workers : \A other \in Chats :
          (StepOf(w) /\ ChatOf(w) # other) =>
              /\ (other \in DOMAIN user_context) = (other \in DOMAIN user_context')
              /\ Record(user_context', other) = Record(user_context, other)]_vars

\* queries of the two chats have both stored, and the records differ
C6_Witness ==
    \E v, w \in Workers :
        /\ frame[v].chat_id = 1 /\ frame[w].chat_id = 2
        /\ pc[v] \in AfterJoin \ {"store"}
        /\ pc[w] \in AfterJoin \ {"store"}
        /\ user_context[1] = frame[v].aggregated_news
        /\ user_context[2] = frame[w].aggregated_news
        /\ user_context[1] # user_context[2]

\* thread w runs lines 268-278 for an item in this step
TagStep(w) == pc[w] = "tag" /\ pc'[w] = "count"

\* C7: the turn of an item gives it "ne opredeleno" exactly when the
\* classifier call failed and the top label otherwise, and leaves every other
\* item as it was; count goes up by one per item, after the failure as after
\* the success, and only there; the loop goes on after a failure; when the
\* loop has ended, count = total and, once line 281 has run, done is true.
C7_FailureIsPerItem ==
    /\ [](\A w \in Workers :
             /\ pc[w] \in AfterLoop =>
                   progress[w].count = progress[w].total
                   /\ progress[w].total = Len(frame[w].aggregated_news)
             /\ pc[w] \in {"join"} \cup AfterJoin => progress[w].done)
    /\ [][\A w \in Workers :
             /\ TagStep(w) =>
                   LET i      == frame[w].i
                       before == frame[w].aggregated_news
                       after  == frame'[w].aggregated_news
                       result == frame'[w].result
                   IN  /\ Len(after) = Len(before)
                       /\ \A k \in 1..Len(before) : k # i => after[k] = before[k]
                       /\ (after[i].predicted_emotion = UNDETERMINED) = (~result.ok)
                       /\ result.ok => after[i].predicted_emotion = result.labels[1]
                       /\ progress'[w] = progress[w]
             /\ pc[w] = "count" =>
                   \/ pc'[w] = "count" /\ progress'[w] = progress[w] /\ frame'[w] = frame[w]
                   \/ /\ progress'[w].count = progress[w].count + 1
                      /\ frame'[w].aggregated_news = frame[w].aggregated_news
                      /\ pc'[w] = IF frame[w].i < Len(frame[w].aggregated_news)
                                  THEN "tag" ELSE "set_done"
                      /\ frame'[w].i = IF frame[w].i < Len(frame[w].aggregated_news)
                                       THEN frame[w].i + 1 ELSE frame[w].i
             /\ (pc[w] # "count" /\ rpc[w] # "none" /\ rpc'[w] # "none") =>
                   progress'[w].count = progress[w].count]_vars

\* three items, the classifier failed on the second one only
C7_Witness ==
    \E w \in Workers :
        /\ pc[w] = "join"
        /\ Len(frame[w].aggregated_news) = 3
        /\ frame[w].aggregated_news[1].predicted_emotion \in LabelSet
        /\ frame[w].aggregated_news[2].predicted_emotion = UNDETERMINED
        /\ frame[w].aggregated_news[3].predicted_emotion \in LabelSet
        /\ progress[w].count = 3
        /\ progress[w].done

\* the reporter of thread w tries an edit in this step: line 253 or line 259
EditStep(w) == rpc[w] \in {"emit", "final"} /\ rpc'[w] # rpc[w]

\* C8: an edit of the progress message, failed or not, leaves the handler,
\* the items, the progress dict, the store and the chart file as they are,
\* and the reporter goes on: back to the loop condition after line 253, to
\* its end after line 259.
C8_EmitFailureSwallowed ==
    [][\A w \in Workers :
          EditStep(w) =>
              /\ rpc'[w] = IF rpc[w] = "emit" THEN "while" ELSE "exited"
              /\ pc'[w] = pc[w]
              /\ frame'[w] = frame[w]
              /\ progress'[w] = progress[w]
              /\ user_context' = user_context
              /\ emotion_graph_png' = emotion_graph_png]_vars

\* the last edit the reporter tried failed and the batch was stored all the same
C8_Witness ==
    \E w \in Workers :
        /\ pc[w] = "graph"
        /\ ~emits[w].ok
        /\ user_context[frame[w].chat_id] = frame[w].aggregated_news

\* the links of crawl_page that pass lines 101 and 112, in document order
Candidates == CollectLinks(find_all_a(crawl_page.anchors))

\* C9: the list get_news_for_day returns holds every URL of the candidates
\* once and no other, and the item of a URL has the headline of the last
\* candidate with that URL.
C9_DedupLastWins ==
    (crawl_pc = "returned" /\ crawl_page.status = "ok") =>
        /\ \A j, k \in 1..Len(crawl_result) :
              j # k => crawl_result[j].url # crawl_result[k].url
        /\ {crawl_result[k].url : k \in 1..Len(crawl_result)}
              = {Candidates[k].url : k \in 1..Len(Candidates)}
        /\ \A k \in 1..Len(crawl_result) :
              LET same == {j \in 1..Len(Candidates) : Candidates[j].url = crawl_result[k].url}
                  last == CHOOSE j \in same : \A l \in same : l <= j
              IN  crawl_result[k].headline = Candidates[last].headline

\* two candidates of the page share a URL and differ in their headlines
C9_Witness ==
    /\ crawl_pc = "returned"
    /\ crawl_page.status = "ok"
    /\ \E j, k \in 1..Len(Candidates) :
          /\ j < k
          /\ Candidates[j].url = Candidates[k].url
          /\ Candidates[j].headline # Candidates[k].headline
    /\ Len(crawl_result) = 2

\* every date d with d1 <= d <= d2
DatesBetween(d1, d2) ==
    {d \in [year : d1.year..d2.year, month : 1..12, day : 1..31] :
        ValidDate(d.year, d.month, d.day) /\ DateLE(d1, d) /\ DateLE(d, d2)}

\* C10: get_news_for_date_range(d1, d2) with d1 <= d2 returns a dict whose
\* keys are the dates of [d1, d2]: when the call returns the keys are those
\* dates, and once the dict holds all of them the call does return it.
C10_RangeComplete ==
    \A w \in Workers :
        (frame[w].start_date # NoDate /\ DateLE(frame[w].start_date, frame[w].end_date)) =>
            /\ pc[w] = "aggregate" =>
                  DictKeys(frame[w].news_by_day)
                      = DatesBetween(frame[w].start_date, frame[w].end_date)
            /\ DictKeys(frame[w].news_by_day)
                  = DatesBetween(frame[w].start_date, frame[w].end_date) =>
                  pc[w] # "except"

\* token is three integers with "-" between them that name a day of the
\* calendar, day first
IsCalendarDate(token) ==
    LET fields == SplitOn(token, "-") IN
    /\ Len(fields) = 3
    /\ \A k \in 1..3 : IsInt(fields[k])
    /\ ValidDate(IntOf(fields[3]), IntOf(fields[2]), IntOf(fields[1]))

\* text is neither one date nor two dates
Malformed(text) ==
    LET tokens == SplitWhitespace(text) IN
    \/ Len(tokens) \notin {1, 2}
    \/ \E k \in 1..Len(tokens) : ~IsCalendarDate(tokens[k])

\* where a handler stands from the first page fetch of its query on
Working == (Collecting \ {"try"}) \cup {"tag", "count", "crashed"} \cup AfterLoop

\* C11: a query with a malformed text ends in the step that parses it, with
\* a message to the user ("bad format" for a wrong number of tokens, the
\* error of the parse otherwise): the handler is idle again, no reporter is
\* started, the store and the chart file are as before; so no handler that
\* fetches, classifies or reports works on a malformed text.
C11_MalformedAborts ==
    /\ [](\A w \in Workers :
             (pc[w] \in Working \/ rpc[w] # "none") => ~Malformed(frame[w].text))
    /\ [][\A w \in Workers :
             (pc[w] = "try" /\ pc'[w] # "try" /\ Malformed(frame[w].text)) =>
                 /\ pc'[w] = "idle"
                 /\ reply'[w] = IF Len(SplitWhitespace(frame[w].text)) \in {1, 2}
                                THEN "input_error" ELSE "bad_format"
                 /\ rpc'[w] = "none" /\ rpc[w] = "none"
                 /\ progress'[w] = NoProgress
                 /\ frame'[w] = EmptyFrame
                 /\ user_context' = user_context
                 /\ emotion_graph_png' = emotion_graph_png]_vars

\* the only query was refused for its text, and nothing was fetched or stored
C11_Witness ==
    \E w \in Workers :
        /\ pc[w] = "idle"
        /\ reply[w] = "bad_format"
        /\ queries_left = 0
        /\ user_context = <<>>
        /\ ~emotion_graph_png.exists

\* the items of the batch with this label
ItemsWith(news_items, label) ==
    {k \in 1..Len(news_items) :
        HasLabel(news_items[k]) /\ news_items[k].predicted_emotion = label}

\* the items of the batch with no label of the fixed list
ItemsOutside(news_items) ==
    {k \in 1..Len(news_items) :
        ~HasLabel(news_items[k]) \/ news_items[k].predicted_emotion \notin LabelSet}

\* C12: the counts generate_emotion_graph draws have the five candidate
\* labels as their keys, the count of a label is the number of items of the
\* batch with that label, and the counts add up to the size of the batch
\* less the items labelled "ne opredeleno" (or otherwise outside the list).
C12_CountsByLabel ==
    \A w \in Workers :
        pc[w] = "send_photo" =>
            LET batch  == frame[w].aggregated_news
                counts == emotion_graph_png.counts
            IN  /\ emotion_graph_png.exists
                /\ DOMAIN counts = {CANDIDATE_LABELS[k] : k \in 1..5}
                /\ \A label \in DOMAIN counts :
                      counts[label] = Cardinality(ItemsWith(batch, label))
                /\ counts[CANDIDATE_LABELS[1]] + counts[CANDIDATE_LABELS[2]]
                     + counts[CANDIDATE_LABELS[3]] + counts[CANDIDATE_LABELS[4]]
                     + counts[CANDIDATE_LABELS[5]]
                     = Len(batch) - Cardinality(ItemsOutside(batch))

\* the chart of a batch with a failed item and two items of one label
C12_Witness ==
    \E w \in Workers :
        /\ pc[w] = "send_photo"
        /\ Cardinality(ItemsOutside(frame[w].aggregated_news)) = 1
        /\ \E label \in LabelSet : emotion_graph_png.counts[label] = 2

\* C13: a tagging run whose reporter has started goes on to the end: the
\* handler sets done, its reporter ends, and the join of line 282 returns
\* (the handler is at line 284 only when all three have happened).
C13_ReporterEnds ==
    \A w \in Workers : (rpc[w] = "while") ~> (pc[w] = "store")

\* C14: the chart a query sends shows the label counts of its own batch,
\* when the other handler thread serves another chat or none.
C14_ChartOfOwnBatch ==
    \A w \in Workers :
        (/\ pc[w] = "send_menu"
         /\ \A v \in Workers \ {w} : frame[v].chat_id # frame[w].chat_id) =>
            /\ frame[w].photo.exists
            /\ \A label \in LabelSet :
                  frame[w].photo.counts[label]
                      = Cardinality(ItemsWith(frame[w].aggregated_news, label))

\* C15: every stored item has a label; a stored batch stays as it is, item
\* by item, until a query of its chat runs line 284, whatever the handlers
\* that collect or tag meanwhile do; and what a button press gets is a
\* selection of labelled items of the stored batch.
C15_StoredItemsStay ==
    /\ [](\A chat \in DOMAIN user_context : Labelled(user_context[chat]))
    /\ [][/\ \A chat \in DOMAIN user_context :
                (~\E w \in Workers : StoreStep(w) /\ frame[w].chat_id = chat) =>
                    /\ chat \in DOMAIN user_context'
                    /\ user_context'[chat] = user_context[chat]
          /\ \A w \in Workers :
                FilterStep(w) =>
                    /\ Labelled(frame'[w].filtered_news)
                    /\ \A k \in 1..Len(frame'[w].filtered_news) :
                          \E j \in 1..Len(Record(user_context, frame'[w].chat_id)) :
                              frame'[w].filtered_news[k]
                                  = user_context[frame'[w].chat_id][j]]_vars

\* a button press of a chat got items of the stored batch while a later
\* query of that chat has its own batch not labelled to the end
C15_Witness ==
    \E v, w \in Workers :
        /\ frame[v].chat_id = frame[w].chat_id
        /\ pc[v] \in {"tag", "count"}
        /\ ~Labelled(frame[v].aggregated_news) \/ progress[v].count < progress[v].total
        /\ pc[w] = "send_filtered"
        /\ frame[w].filtered_news # <<>>
        /\ Labelled(user_context[frame[w].chat_id])

\* the items of the batch that have a label
LabelledItems(news_items) == {k \in 1..Len(news_items) : HasLabel(news_items[k])}

\* where a handler stands during a tagging run and after it
Tagging == {"tag", "count", "crashed"} \cup AfterLoop

\* C16 as stated: at every moment of a tagging run, count is the number of
\* labelled items and the labelled items are the first count items.
C16_CountIsLabelled ==
    \A w \in Workers :
        pc[w] \in Tagging =>
            LabelledItems(frame[w].aggregated_news) = 1..progress[w].count

\* C16, amended: the items get their labels one at a time in input order:
\* the item in turn is item count + 1, the labelled items are the first
\* count items, and the item in turn as well from line 275 or 278 until
\* line 279 has counted it; after the loop all items are labelled and
\* counted.
C16_OneAtATime ==
    \A w \in Workers :
        LET labelled == LabelledItems(frame[w].aggregated_news)
            count    == progress[w].count
        IN  /\ pc[w] \in {"tag", "crashed"} =>
                  frame[w].i = count + 1 /\ labelled = 1..count
            /\ pc[w] = "count" =>
                  frame[w].i = count + 1 /\ labelled = 1..(count + 1)
            /\ pc[w] \in AfterLoop =>
                  /\ count = Len(frame[w].aggregated_news)
                  /\ labelled = 1..count

\* the second of three items has its label and is not counted yet
C16_Witness ==
    \E w \in Workers :
        /\ pc[w] = "count"
        /\ Len(frame[w].aggregated_news) = 3
        /\ progress[w].count = 1
        /\ LabelledItems(frame[w].aggregated_news) = {1, 2}

\* C17: a percent the reporter emitted in its loop is in 0..100 and is the
\* integer part of 100 * c / total for a value c the count had at or before
\* the emit.
C17_PercentIsFloor ==
    \A w \in Workers :
        (emits[w].percent # -1 /\ emits[w].finals = 0) =>
            /\ emits[w].percent \in 0..100
            /\ \E c \in 0..progress[w].count :
                  emits[w].percent = (100 * c) \div progress[w].total

\* C18: the crawl returns no item whose headline equals an entry of the
\* headline blacklist up to letter case: every such link is discarded.
C18_BlacklistIgnoresCase ==
    crawl_pc = "returned" =>
        \A k \in 1..Len(crawl_result) :
            \A entry \in blacklisted_headlines :
                ~EqualIgnoringCase(crawl_result[k].headline, entry)

\* the link passes the headline filter of line 101 and the URL filter of
\* line 112
Passes(a) ==
    /\ ~HeadlineRejected(format_news_headline(get_text(a)))
    /\ ~UrlRejected(ResolveUrl(a.href))

\* the places, in document order, of the links of crawl_page that have an
\* href, resolve to url and pass both filters
PassingAt(url) ==
    {j \in 1..Len(crawl_page.anchors) :
        /\ "href" \in DOMAIN crawl_page.anchors[j]
        /\ ResolveUrl(crawl_page.anchors[j].href) = url
        /\ Passes(crawl_page.anchors[j])}

\* the URLs the links of crawl_page resolve to
LinkedUrls ==
    {ResolveUrl(crawl_page.anchors[j].href) :
        j \in {i \in 1..Len(crawl_page.anchors) : "href" \in DOMAIN crawl_page.anchors[i]}}

\* C19: the filters come before the deduplication: a URL the page links to
\* is in the list get_news_for_day returns exactly when a link resolving to
\* it passes both filters, and its item then has the headline of the last
\* such link, whatever rejected links with the same URL stand before or
\* after it.
C19_FilterBeforeDedup ==
    (crawl_pc = "returned" /\ crawl_page.status = "ok") =>
        /\ \A url \in LinkedUrls :
              (\E k \in 1..Len(crawl_result) : crawl_result[k].url = url)
                  <=> PassingAt(url) # {}
        /\ \A k \in 1..Len(crawl_result) :
              /\ crawl_result[k].url \in LinkedUrls
              /\ PassingAt(crawl_result[k].url) # {}
              /\ LET last == CHOOSE j \in PassingAt(crawl_result[k].url) :
                                 \A l \in PassingAt(crawl_result[k].url) : l <= j
                 IN  crawl_result[k].headline
                         = format_news_headline(get_text(crawl_page.anchors[last]))

\* a passing link stands between two rejected links with its URL, and the
\* list returned is its item alone
C19_Witness ==
    /\ crawl_pc = "returned"
    /\ crawl_page.status = "ok"
    /\ Len(crawl_page.anchors) = 3
    /\ \A j \in 1..3 : "href" \in DOMAIN crawl_page.anchors[j]
    /\ \A j \in {1, 3} :
          /\ ResolveUrl(crawl_page.anchors[j].href) = ResolveUrl(crawl_page.anchors[2].href)
          /\ ~Passes(crawl_page.anchors[j])
    /\ PassingAt(ResolveUrl(crawl_page.anchors[2].href)) = {2}
    /\ crawl_result = <<[headline |-> format_news_headline(get_text(crawl_page.anchors[2])),
                         url      |-> ResolveUrl(crawl_page.anchors[2].href)]>>

\* C20: in a query for a range of days the batch is the lists of the days
\* one after the other, the days in ascending order: its length is the sum
\* of their lengths, every item has the headline and URL the crawl of its
\* day gave it and that day as its date (so a URL found on two days makes
\* two items), and a turn of the tagging loop changes the item it is at and
\* no other.
C20_NoDedupAcrossDays ==
    /\ [](\A w \in Workers :
             (pc[w] \in Tagging /\ frame[w].start_date # NoDate) =>
                 LET days  == frame[w].news_by_day
                     batch == frame[w].aggregated_news
                 IN  /\ \A j, k \in 1..Len(days) : j < k => DateLT(days[j][1], days[k][1])
                     /\ Len(batch) = ItemsIn(days)
                     /\ \A j \in 1..Len(days) :
                           \A n \in 1..Len(days[j][2]) :
                               LET news == batch[ItemsIn(SubSeq(days, 1, j - 1)) + n]
                               IN  /\ news.date = days[j][1]
                                   /\ news.headline = days[j][2][n].headline
                                   /\ news.url = days[j][2][n].url)
    /\ [][\A w \in Workers :
             (pc[w] = "tag" /\ pc'[w] = "count") =>
                 \A k \in 1..Len(frame[w].aggregated_news) :
                     k # frame[w].i =>
                         frame'[w].aggregated_news[k] = frame[w].aggregated_news[k]]_vars

\* the loop is over a batch with two items of one URL, of two days, that got
\* two labels
C20_Witness ==
    \E w \in Workers :
        /\ pc[w] \in AfterLoop
        /\ frame[w].start_date # NoDate
        /\ \E j, k \in 1..Len(frame[w].aggregated_news) :
              LET a == frame[w].aggregated_news[j]
                  b == frame[w].aggregated_news[k]
              IN  /\ a.url = b.url
                  /\ a.date # b.date
                  /\ a.predicted_emotion # b.predicted_emotion

====
